---- MODULE Spec2Model ----
(***************************************************************************)
(* Model of the study-planner front end's timer client                     *)
(* (src/src/components/StudyTimer.tsx) and of the API client it calls.     *)
(* The browser event loop runs one callback at a time, so every action is  *)
(* one whole callback: an effect run, a WebSocket event, a timer firing,   *)
(* a settled request.                                                      *)
(***************************************************************************)
EXTENDS Integers, Sequences, FiniteSets, TLC

\* ------------------------------------------------------------- bounds ----
MaxInst    == 2   \* component instances mounted over time (tab switches)
MaxEffects == 2   \* runs of the [userId] effect (mounts + key changes)
MaxFail    == 2   \* closes/failures caused by the server or the network
MaxPush    == 2   \* push messages the server sends
MaxCmds    == 1   \* start/pause/reset clicks

\* ----------------------------------------------------------- constants ---
Users == {"u1", "u2"}

Null      == [tag |-> "null"]
Undefined == [tag |-> "undefined"]
NoVal     == [tag |-> "none"]
NoTopic   == "no_topic"
NoNote    == "no_notification"
NoLog     == "no_log"

StudyDuration == 25

\* Addresses are sequences of pieces: single characters, and longer pieces
\* that take part in no occurrence of "http". API_URL when the environment
\* sets none, line 12.
DefaultApiUrl == <<"h", "t", "t", "p", ":", "/", "/", "localhost:8000">>

\* Values NEXT_PUBLIC_API_URL can have: the default, an https address, a host
\* and a path that contain "http" themselves.
BaseAddresses ==
    { DefaultApiUrl,
      <<"h", "t", "t", "p", "s", ":", "/", "/", "api.example.com">>,
      <<"h", "t", "t", "p", ":", "/", "/", "h", "t", "t", "p", "d", ".example.com">>,
      <<"h", "t", "t", "p", "s", ":", "/", "/", "a.io", "/", "h", "t", "t", "p">> }

\* String.prototype.replace(pattern, replacement) with a string pattern: the
\* first occurrence only.
IndexOf(s, pat) ==
    LET hits == {i \in 1..(Len(s) - Len(pat) + 1) : SubSeq(s, i, i + Len(pat) - 1) = pat}
    IN IF hits = {} THEN 0 ELSE CHOOSE i \in hits : \A j \in hits : i <= j

Replace(s, pat, new) ==
    LET i == IndexOf(s, pat)
    IN IF i = 0 THEN s
       ELSE SubSeq(s, 1, i - 1) \o new \o SubSeq(s, i + Len(pat), Len(s))

RECURSIVE ReplaceAll(_, _, _)
ReplaceAll(s, pat, new) ==
    LET i == IndexOf(s, pat)
    IN IF i = 0 THEN s
       ELSE SubSeq(s, 1, i - 1) \o new
            \o ReplaceAll(SubSeq(s, i + Len(pat), Len(s)), pat, new)

\* An address derived by replacing every "http".
WsUrlAll(api) == ReplaceAll(api, <<"h", "t", "t", "p">>, <<"w", "s">>)

\* WS_URL = API_URL.replace('http', 'ws'), line 13.
WsUrl(api) == Replace(api, <<"h", "t", "t", "p">>, <<"w", "s">>)

\* `${WS_URL}/api/timer/ws/${userId}`, line 49.
SocketAddress(api, u) == WsUrl(api) \o <<"/api/timer/ws/", u>>

\* TimerState values the server sends (types/index.ts TimerState).
TS(run, brk, sess, rem, topic) ==
    [is_running |-> run, is_break |-> brk, current_session |-> sess,
     time_remaining |-> rem, topic |-> topic]

TimerStates ==
    { TS(FALSE, FALSE, 1, StudyDuration * 60, NoTopic),
      TS(TRUE,  FALSE, 1, StudyDuration * 60 - 10, "math") }

\* TimerStats values (types/index.ts TimerStats), reduced to the counter.
TimerStatsValues == { [sessions_completed |-> 0] }

\* Text frames the socket can deliver: a JSON object with a state and an
\* optional notification, a JSON object without a state field, and text that
\* JSON.parse rejects.
Frame(kind, st, note) == [kind |-> kind, state |-> st, notification |-> note]

PushFrames ==
    { Frame("json", TS(FALSE, FALSE, 1, StudyDuration * 60, NoTopic), NoNote),
      Frame("json", TS(TRUE, FALSE, 1, StudyDuration * 60 - 10, "math"), "Break time!"),
      Frame("json", TS(FALSE, FALSE, 1, StudyDuration * 60, NoTopic), ""),
      Frame("json", Undefined, NoNote),
      Frame("malformed", Undefined, NoNote) }

VARIABLES
    mounted,     \* is a StudyTimer instance mounted
    inst,        \* number of the current (latest) instance, 0 before any mount
    userId,      \* the userId prop of the current instance
    nEffects,    \* effect runs so far; the latest is the generation in force
    activeGen,   \* generation of the effect that has not been cleaned up, 0 if none
    timerState,  \* useState timerState, per instance
    stats,       \* useState stats, per instance
    isConnected, \* useState isConnected, per instance
    wsRef,       \* useRef wsRef.current, per instance; 0 is null
    sockets,     \* every WebSocket created, in creation order
    timers,      \* pending setTimeout(3000) callbacks, in firing order
    reqs,        \* requests in flight
    nFail, nPush, nCmds,
    out,         \* what the callback that ran last showed, logged or threw
    env,         \* what surrounds the component and never changes: the build's
                 \* API_URL, and whether toasts and the console are watched
    panel        \* the page's tab when it is not the timer tab, with the state
                 \* of the component it shows (FileUpload, ScheduleGenerator)

vars == <<mounted, inst, userId, nEffects, activeGen, timerState, stats,
          isConnected, wsRef, sockets, timers, reqs, nFail, nPush, nCmds, out,
          env, panel>>

\* What belongs to the timer tab.
timerVars == <<mounted, inst, userId, nEffects, activeGen, timerState, stats,
               isConnected, wsRef, sockets, timers, reqs, nFail, nPush, nCmds>>

\* The page shows the timer tab (part_002 lines 287-299): neither FileUpload
\* nor ScheduleGenerator is rendered.
NoPanel == [tab |-> "timer"]

Insts == 1..MaxInst
Gens  == 1..MaxEffects

\* What one callback lets out of the component: the toast it shows
\* (react-hot-toast), the console.error it writes, and whether it ended in an
\* exception nobody caught.
Out(toast, log, fault) == [toast |-> toast, log |-> log, fault |-> fault]

Quiet == Out(NoNote, NoLog, FALSE)

\* The StudyTimer callback that runs lets o out; it is recorded when somebody
\* watches. No callback of StudyTimer touches the other tabs.
Emit(o) ==
    /\ out' = IF env.observed THEN o ELSE Quiet
    /\ env' = env
    /\ panel' = panel

\* !timerState
IsTruthy(ts) == ts \notin {Null, Undefined}

\* A state setter of an instance that is no longer mounted does nothing.
IsLive(i) == mounted /\ i = inst

SetState(f, i, v) == IF IsLive(i) THEN [f EXCEPT ![i] = v] ELSE f

\* No StudyTimer has been mounted yet.
TimerIdle ==
    /\ mounted = FALSE
    /\ inst = 0
    /\ userId = "u1"
    /\ nEffects = 0
    /\ activeGen = 0
    /\ timerState = [i \in Insts |-> Null]
    /\ stats = [i \in Insts |-> Null]
    /\ isConnected = [i \in Insts |-> FALSE]
    /\ wsRef = [i \in Insts |-> 0]
    /\ sockets = <<>>
    /\ timers = <<>>
    /\ reqs = {}
    /\ nFail = 0
    /\ nPush = 0
    /\ nCmds = 0

\* Nothing is mounted yet; e is the environment the page runs in.
InitIn(e) ==
    /\ TimerIdle
    /\ out = Quiet
    /\ env = e
    /\ panel = NoPanel

Init == InitIn([apiUrl |-> DefaultApiUrl, observed |-> FALSE])

\* The same page with its toasts and its console watched.
InitObserved == InitIn([apiUrl |-> DefaultApiUrl, observed |-> TRUE])

\* The same page built with any of the base addresses.
InitUrl == \E a \in BaseAddresses : InitIn([apiUrl |-> a, observed |-> FALSE])

\* ------------------------------------------------ the [userId] effect ----
\* A request in flight: what was asked, by which closure (instance i, userId u,
\* effect generation g), on behalf of which click (0 for initializeTimer), and
\* its place among the requests issued by the same callback.
Request(kind, i, u, g, click, ord) ==
    [kind |-> kind, inst |-> i, user |-> u, gen |-> g, click |-> click,
     ord |-> ord]

\* connectWebSocket, lines 48-89: a new socket with the four handlers of this
\* closure (instance i, userId u, effect generation g) becomes wsRef.current.
\* via, afterCreate and stale record how and when the socket was created: by
\* the effect or by a timer, with the createTimer request of its effect (among
\* the requests rq in flight at that moment) settled or not, and with its
\* effect cleaned up or not.
NewSocket(i, u, g, via, rq) ==
    [rs |-> "CONNECTING", user |-> u, inst |-> i, gen |-> g,
     url |-> SocketAddress(env.apiUrl, u),
     via |-> via,
     afterCreate |-> ~\E r \in rq : r.kind = "create" /\ r.gen = g,
     stale |-> via = "reconnect" /\ g # activeGen]

ConnectWebSocket(socks, i, u, g, via, rq) ==
    Append(socks, NewSocket(i, u, g, via, rq))

\* WebSocket.close(): a connecting or open socket starts closing.
CloseSocket(socks, h) ==
    IF h = 0 \/ socks[h].rs \in {"CLOSING", "CLOSED"}
    THEN socks
    ELSE [socks EXCEPT ![h].rs = "CLOSING"]

\* A cleanup that leaves the connection open.
CleanupNothing(socks, i) == socks

\* The effect cleanup, lines 31-35.
Cleanup(socks, i) == CloseSocket(socks, wsRef[i])

\* The effect body, lines 28-29, run for instance i with userId u after the
\* sockets have become socks: initializeTimer() issues the create request and
\* suspends, then connectWebSocket() runs.
RunEffect(socks, i, u) ==
    LET g == nEffects + 1 IN
    /\ nEffects' = g
    /\ activeGen' = g
    /\ reqs' = reqs \cup {Request("create", i, u, g, 0, 1)}
    /\ sockets' = ConnectWebSocket(socks, i, u, g, "effect", reqs')
    /\ wsRef' = [wsRef EXCEPT ![i] = Len(socks) + 1]

\* The page renders a new StudyTimer (the timer tab is selected) with the
\* userId its parent holds.
Mount ==
    /\ ~mounted
    /\ inst < MaxInst
    /\ nEffects < MaxEffects
    /\ mounted' = TRUE
    /\ inst' = inst + 1
    /\ RunEffect(sockets, inst + 1, userId)
    /\ Emit(Quiet)
    /\ UNCHANGED <<userId, timerState, stats, isConnected, timers, nFail, nPush,
                   nCmds>>

\* The userId prop changes: cleanup of the old effect, then the new effect.
KeyChange(u) ==
    /\ mounted
    /\ u # userId
    /\ nEffects < MaxEffects
    /\ userId' = u
    /\ RunEffect(Cleanup(sockets, inst), inst, u)
    /\ Emit(Quiet)
    /\ UNCHANGED <<mounted, inst, timerState, stats, isConnected, timers, nFail,
                   nPush, nCmds>>

\* The instance is removed (another tab is selected): the cleanup runs and the
\* instance's state is discarded. Its ref, its sockets, its timers and its
\* requests live on in the closures that hold them.
Unmount ==
    /\ mounted
    /\ mounted' = FALSE
    /\ activeGen' = 0
    /\ sockets' = Cleanup(sockets, inst)
    /\ timerState' = [timerState EXCEPT ![inst] = Null]
    /\ stats' = [stats EXCEPT ![inst] = Null]
    /\ isConnected' = [isConnected EXCEPT ![inst] = FALSE]
    /\ Emit(Quiet)
    /\ UNCHANGED <<inst, userId, nEffects, wsRef, timers, reqs, nFail,
                   nPush, nCmds>>

\* --------------------------------------------------- WebSocket events ----
SockIds == 1..Len(sockets)

\* An open handler that leaves the status alone.
OnOpenStatusLazy(ic, i) == ic

\* setIsConnected(true), line 53.
OnOpenStatus(ic, i) == SetState(ic, i, TRUE)

\* ws.onopen, lines 51-54.
SocketOpen(s) ==
    /\ sockets[s].rs = "CONNECTING"
    /\ sockets' = [sockets EXCEPT ![s].rs = "OPEN"]
    /\ isConnected' = OnOpenStatus(isConnected, sockets[s].inst)
    /\ Emit(Quiet)
    /\ UNCHANGED <<mounted, inst, userId, nEffects, activeGen, timerState, stats,
                   wsRef, timers, reqs, nFail, nPush, nCmds>>

\* What the handlers of a socket can reach through their closure.
HandlerView ==
    [isConnected |-> isConnected, timers |-> timers, timerState |-> timerState,
     sockets |-> sockets]

\* An error handler that starts the recovery itself: it closes the socket and
\* schedules a reconnect.
OnErrorRecover(v, s) ==
    [v EXCEPT !.isConnected = SetState(@, sockets[s].inst, FALSE),
              !.timers = Append(@, [inst |-> sockets[s].inst,
                                    user |-> sockets[s].user,
                                    gen |-> sockets[s].gen])]

\* ws.onerror of socket s, lines 71-74.
OnError(v, s) ==
    [v EXCEPT !.isConnected = SetState(@, sockets[s].inst, FALSE)]

\* ws.onclose, lines 76-86: the status, and the timer it schedules.
OnCloseStatus(ic, i) == SetState(ic, i, FALSE)

\* A close handler that schedules nothing.
ScheduleReconnectNever(tm, s) == tm

ScheduleReconnect(tm, s) ==
    Append(tm, [inst |-> sockets[s].inst, user |-> sockets[s].user,
                gen |-> sockets[s].gen])

\* The socket s reaches CLOSED and the browser fires the error event (when
\* there is one) and then the close event.
CloseHandlers(s, err) ==
    LET v == IF err THEN OnError(HandlerView, s) ELSE HandlerView IN
    /\ sockets' = [v.sockets EXCEPT ![s].rs = "CLOSED"]
    /\ isConnected' = OnCloseStatus(v.isConnected, sockets[s].inst)
    /\ timers' = ScheduleReconnect(v.timers, s)
    /\ timerState' = v.timerState
    /\ Emit(Out(NoNote, IF err THEN "WebSocket error:" ELSE NoLog, FALSE))
    /\ UNCHANGED <<mounted, inst, userId, nEffects, activeGen, stats,
                   wsRef, reqs, nPush, nCmds>>

\* The close handshake that close() started completes.
CloseEvent(s, err) ==
    /\ sockets[s].rs = "CLOSING"
    /\ nFail' = nFail
    /\ CloseHandlers(s, err)

\* The server or the network ends a connecting or open socket; a failed open
\* always comes with an error event.
ConnectionLost(s, err) ==
    /\ sockets[s].rs \in {"CONNECTING", "OPEN"}
    /\ sockets[s].rs = "CONNECTING" => err
    /\ nFail < MaxFail
    /\ nFail' = nFail + 1
    /\ CloseHandlers(s, err)

\* A delayed callback that reconnects whatever the state of the handle.
ReconnectGuardNone(socks, h) == h # 0

\* The condition of the delayed callback, line 82.
ReconnectGuard(socks, h) == h # 0 /\ socks[h].rs = "CLOSED"

\* The setTimeout callback of onclose, lines 81-85. Equal delays fire in the
\* order they were scheduled.
ReconnectFire ==
    /\ timers # <<>>
    /\ LET t == Head(timers)
           h == wsRef[t.inst]
       IN IF ReconnectGuard(sockets, h)
          THEN /\ sockets' = ConnectWebSocket(sockets, t.inst, t.user, t.gen,
                                              "reconnect", reqs)
               /\ wsRef' = [wsRef EXCEPT ![t.inst] = Len(sockets) + 1]
          ELSE /\ UNCHANGED <<sockets, wsRef>>
    /\ timers' = Tail(timers)
    /\ Emit(Quiet)
    /\ UNCHANGED <<mounted, inst, userId, nEffects, activeGen, timerState, stats,
                   isConnected, reqs, nFail, nPush, nCmds>>

\* A reducer that keeps the topic of the old state when the new one has none.
ReduceMessageMerge(old, data) ==
    IF IsTruthy(old) /\ IsTruthy(data.state) /\ data.state.topic = NoTopic
    THEN [data.state EXCEPT !.topic = old.topic]
    ELSE data.state

\* setTimerState(data.state), line 58.
ReduceMessage(old, data) == data.state

\* A handler that shows a toast for every push.
MessageToastAlways(data) ==
    IF data.notification = NoNote THEN "Timer updated" ELSE data.notification

\* if (data.notification) toast.success(data.notification), lines 61-62: an
\* absent, null or empty notification is falsy.
MessageToast(data) ==
    IF data.notification \in {NoNote, ""} THEN NoNote ELSE data.notification

\* ws.onmessage, lines 56-69, for a frame f the server sent on the open socket
\* s. JSON.parse throws on malformed text, and the handler then ends before
\* line 58 with an exception that no try block surrounds.
OnMessage(s, f) ==
    /\ sockets[s].rs = "OPEN"
    /\ nPush < MaxPush
    /\ nPush' = nPush + 1
    /\ LET i == sockets[s].inst
       IN IF f.kind = "malformed"
          THEN /\ timerState' = timerState
               /\ Emit(Out(NoNote, NoLog, TRUE))
          ELSE /\ timerState' = SetState(timerState, i,
                                         ReduceMessage(timerState[i], f))
               /\ Emit(Out(MessageToast(f), NoLog, FALSE))
    /\ UNCHANGED <<mounted, inst, userId, nEffects, activeGen, stats, isConnected,
                   wsRef, sockets, timers, reqs, nFail, nCmds>>

\* ------------------------------------------------- request/response ----
ReqsOf(kind) == {r \in reqs : r.kind = kind}

\* fetchTimerState and fetchStats up to their await, lines 93 and 102: the two
\* GET requests, in call order.
FetchState(r, ord) == Request("state", r.inst, r.user, r.gen, r.click, ord)
FetchStats(r, ord) == Request("stats", r.inst, r.user, r.gen, r.click, ord)

\* An initializeTimer whose fetches do not depend on createTimer's outcome.
AfterCreateAlways(r, ok) == {FetchState(r, 1), FetchStats(r, 2)}

\* What initializeTimer issues once createTimer has settled, lines 40-45.
AfterCreate(r, ok) ==
    IF ok THEN {FetchState(r, 1), FetchStats(r, 2)} ELSE {}

\* The createTimer request of initializeTimer settles.
CreateSettled(r, ok) ==
    /\ r \in ReqsOf("create")
    /\ reqs' = (reqs \ {r}) \cup AfterCreate(r, ok)
    /\ Emit(Out(NoNote, IF ok THEN NoLog ELSE "Timer initialization error:", FALSE))
    /\ UNCHANGED <<mounted, inst, userId, nEffects, activeGen, timerState, stats,
                   isConnected, wsRef, sockets, timers, nFail, nPush, nCmds>>

\* A client that counts the fetched state down by itself.
ReduceFetchTick(old, st) == [st EXCEPT !.time_remaining = @ - 1]

\* setTimerState(response.data.state), line 94.
ReduceFetch(old, st) == st

\* A fetchTimerState that asks again when its request was rejected.
AfterStateFetchRetry(r, ok) == IF ok THEN {} ELSE {r}

\* What fetchTimerState issues after its await, lines 94-97: nothing, whether
\* the request resolved or was rejected.
AfterStateFetch(r, ok) == {}

\* fetchTimerState after its await, lines 94-97.
StateSettled(r, ok, st) ==
    /\ r \in ReqsOf("state")
    /\ reqs' = (reqs \ {r}) \cup AfterStateFetch(r, ok)
    /\ Emit(Out(NoNote, IF ok THEN NoLog ELSE "Error fetching timer state:", FALSE))
    /\ timerState' = IF ok
                     THEN SetState(timerState, r.inst,
                                   ReduceFetch(timerState[r.inst], st))
                     ELSE timerState
    /\ UNCHANGED <<mounted, inst, userId, nEffects, activeGen, stats, isConnected,
                   wsRef, sockets, timers, nFail, nPush, nCmds>>

\* fetchStats after its await, lines 103-106.
StatsSettled(r, ok, v) ==
    /\ r \in ReqsOf("stats")
    /\ reqs' = reqs \ {r}
    /\ Emit(Out(NoNote, IF ok THEN NoLog ELSE "Error fetching stats:", FALSE))
    /\ stats' = IF ok THEN SetState(stats, r.inst, v) ELSE stats
    /\ UNCHANGED <<mounted, inst, userId, nEffects, activeGen, timerState,
                   isConnected, wsRef, sockets, timers, nFail,
                   nPush, nCmds>>

Commands == {"start", "pause", "reset"}

\* The buttons exist once timerState is set (line 143); the main button is
\* pause while is_running and start otherwise.
CanClick(kind) ==
    /\ mounted
    /\ IsTruthy(timerState[inst])
    /\ kind = "start" => ~timerState[inst].is_running
    /\ kind = "pause" => timerState[inst].is_running

\* handleStart, handlePause, handleReset up to their await, lines 111, 120, 129.
Command(kind) ==
    /\ kind \in Commands
    /\ CanClick(kind)
    /\ nCmds < MaxCmds
    /\ nCmds' = nCmds + 1
    /\ reqs' = reqs \cup {Request(kind, inst, userId, activeGen, nCmds + 1, 1)}
    /\ Emit(Quiet)
    /\ UNCHANGED <<mounted, inst, userId, nEffects, activeGen, timerState, stats,
                   isConnected, wsRef, sockets, timers, nFail, nPush>>

\* Handlers that stay silent when the request was rejected.
CommandToastSilent(kind, ok) ==
    IF ok
    THEN CASE kind = "start" -> "Timer started!"
           [] kind = "pause" -> "Timer paused"
           [] kind = "reset" -> "Timer reset"
    ELSE NoNote

\* The toast of each handler, lines 112-114, 121-123, 131-133.
CommandToast(kind, ok) ==
    IF ok
    THEN CASE kind = "start" -> "Timer started!"
           [] kind = "pause" -> "Timer paused"
           [] kind = "reset" -> "Timer reset"
    ELSE CASE kind = "start" -> "Failed to start timer"
           [] kind = "pause" -> "Failed to pause timer"
           [] kind = "reset" -> "Failed to reset timer"

\* Handlers that all refresh the statistics, whatever the outcome.
AfterCommandAlways(r, ok) == {FetchStats(r, 1)}

\* What a command handler issues after its request resolved: handleReset calls
\* fetchStats (line 130), the others nothing.
AfterCommand(r, ok) ==
    IF ok /\ r.kind = "reset" THEN {FetchStats(r, 1)} ELSE {}

\* A start handler that marks the timer as running before any push says so.
StateAfterCommandOptimistic(ts, kind, ok) ==
    IF IsTruthy(ts) /\ kind = "start" /\ ok
    THEN [ts EXCEPT !.is_running = TRUE]
    ELSE ts

\* The cached state after a command handler has finished, lines 109-135: no
\* handler calls setTimerState.
StateAfterCommand(ts, kind, ok) == ts

\* handleStart, handlePause, handleReset after their await.
CommandSettled(r, ok) ==
    /\ r \in reqs
    /\ r.kind \in Commands
    /\ reqs' = (reqs \ {r}) \cup AfterCommand(r, ok)
    /\ timerState' = SetState(timerState, r.inst,
                              StateAfterCommand(timerState[r.inst], r.kind, ok))
    /\ Emit(Out(CommandToast(r.kind, ok), NoLog, FALSE))
    /\ UNCHANGED <<mounted, inst, userId, nEffects, activeGen, stats, isConnected,
                   wsRef, sockets, timers, nFail, nPush, nCmds>>

\* ------------------------------------------------------ specification ----
\* Mounting, key changes, unmounting and successful opens.
Lifecycle ==
    \/ Mount
    \/ \E u \in Users : KeyChange(u)
    \/ Unmount
    \/ \E s \in SockIds : SocketOpen(s)

\* Close events and the reconnect timers they schedule.
Reconnection ==
    \/ \E s \in SockIds, err \in BOOLEAN : CloseEvent(s, err)
    \/ \E s \in SockIds, err \in BOOLEAN : ConnectionLost(s, err)
    \/ ReconnectFire

\* Pushes, responses and commands.
Traffic ==
    \/ \E s \in SockIds, f \in PushFrames : OnMessage(s, f)
    \/ \E r \in reqs, ok \in BOOLEAN : CreateSettled(r, ok)
    \/ \E r \in reqs, ok \in BOOLEAN :
         \E st \in (IF ok THEN TimerStates ELSE {NoVal}) : StateSettled(r, ok, st)
    \/ \E r \in reqs, ok \in BOOLEAN, v \in TimerStatsValues : StatsSettled(r, ok, v)
    \/ \E kind \in Commands : Command(kind)
    \/ \E r \in reqs, ok \in BOOLEAN : CommandSettled(r, ok)

Next == Lifecycle \/ Reconnection \/ Traffic

Spec == Init /\ [][Next]_vars

\* The connection machine: the server pushes nothing, no request settles and
\* nothing is clicked. Traffic reads and writes none of sockets, timers, wsRef
\* and isConnected, so this is Spec seen through those variables.
NextConn == Lifecycle \/ Reconnection

SpecConn == Init /\ [][NextConn]_vars

\* The cached state and the requests: no close event is delivered, so a socket
\* that close() was called on stays CLOSING and no reconnect timer runs.
\* Reconnection writes timerState, stats and reqs by no path of its own.
NextSync == Lifecycle \/ Traffic

SpecSync == Init /\ [][NextSync]_vars

\* setTimeout callbacks run once their delay has passed.
FairConn == SpecConn /\ WF_vars(ReconnectFire)

\* One mounted instance whose toasts, console and uncaught exceptions are
\* watched while pushes arrive, requests settle and buttons are clicked.
NextNotify == Mount \/ (\E s \in SockIds : SocketOpen(s)) \/ Traffic

SpecNotify == InitObserved /\ [][NextNotify]_vars

\* The connection machine with its console watched.
SpecConnObserved == InitObserved /\ [][NextConn]_vars

\* The connection machine for every base address.
SpecUrl == InitUrl /\ [][NextConn]_vars

\* The timer the component creates (line 40): 25 minutes of focus, breaks of
\* 5 minutes, a long break of 15 minutes.
BreakDuration     == 5
LongBreakDuration == 15

\* The states the server's countdown of that timer passes through, sampled
\* every TickSeconds: a focus session, a break, a long break.
TickSeconds == 30

Countdown(minutes) == {r \in 0..(minutes * 60) : r % TickSeconds = 0}

ServerStates ==
    {TS(TRUE, FALSE, 1, r, NoTopic) : r \in Countdown(StudyDuration)}
      \cup {TS(TRUE, TRUE, 1, r, NoTopic) : r \in Countdown(BreakDuration)}
      \cup {TS(TRUE, TRUE, 4, r, NoTopic) : r \in Countdown(LongBreakDuration)}

\* progressPercentage, lines 151-153: 100 - (time_remaining / nominal) * 100
\* with nominal 5 * 60 for a break and 25 * 60 otherwise. The quotient is exact
\* for the sampled states.
ProgressPercentage(ts) ==
    IF ts.is_break
    THEN 100 - (ts.time_remaining * 100) \div (5 * 60)
    ELSE 100 - (ts.time_remaining * 100) \div (25 * 60)

\* One mounted instance that receives the countdown of its timer as pushes.
NextProgress ==
    \/ Mount
    \/ \E s \in SockIds : SocketOpen(s)
    \/ \E s \in SockIds, st \in ServerStates : OnMessage(s, Frame("json", st, NoNote))

SpecProgress == Init /\ [][NextProgress]_vars

\* ------------------------------------------------ the upload tab ----
\* FileUpload.tsx. A file is known by a number that no other selected file
\* has: dropped files are numbered upwards from the highest number selected.
MaxFiles    == 10
MaxDropSize == 11
MaxDrops    == 2
MaxRemoves  == 1
MaxCalls    == 2

Min(a, b) == IF a < b THEN a ELSE b

\* Array.slice(0, n)
Take(s, n) == SubSeq(s, 1, Min(n, Len(s)))

\* String.trim() on the characters of a subject.
RECURSIVE TrimStart(_)
TrimStart(s) == IF s # <<>> /\ Head(s) = " " THEN TrimStart(Tail(s)) ELSE s

RECURSIVE TrimEnd(_)
TrimEnd(s) ==
    IF s # <<>> /\ s[Len(s)] = " " THEN TrimEnd(SubSeq(s, 1, Len(s) - 1)) ELSE s

Trim(s) == TrimEnd(TrimStart(s))

\* !subject.trim()
IsBlank(s) == Trim(s) = <<>>

\* What the user may type in the subject input.
Subjects == { <<>>, <<" ">>, <<"M">> }

\* What the server extracts from a file (PaperUploadResponse, types lines
\* 24-31): a count of questions and an array of topics, different from file to
\* file and with topics in common.
Extraction(f) ==
    IF f % 2 = 1
    THEN [questions_extracted |-> 1, topics_identified |-> <<"algebra">>]
    ELSE [questions_extracted |-> 2,
          topics_identified |-> <<"calculus", "algebra">>]

\* error.response?.data?.detail of a rejected upload.
NoDetail == "no_detail"
Details  == {NoDetail, "File too large"}

\* An onDrop that keeps the newest files.
OnDropNewest(prev, acceptedFiles) ==
    LET combined == prev \o acceptedFiles IN
    SubSeq(combined, Len(combined) - Min(MaxFiles, Len(combined)) + 1,
           Len(combined))

\* onDrop, lines 32-41.
OnDrop(prev, acceptedFiles) ==
    IF Len(acceptedFiles) = 0
    THEN prev
    ELSE LET filesToAdd == Take(acceptedFiles, MaxFiles)
             combined   == prev \o filesToAdd
         IN  Take(combined, MaxFiles)

\* removeFile, lines 43-45; index counts from 1 here, from 0 in the code.
RemoveAt(prev, index) ==
    SubSeq(prev, 1, index - 1) \o SubSeq(prev, index + 1, Len(prev))

\* FileUpload as Home first renders it (lines 25-30, part_002 lines 178-179),
\* with the batches that run, their requests in flight, and the page's
\* refreshKey and pending tab timers.
UploadPanel ==
    [tab |-> "upload", uploading |-> FALSE, subject |-> <<>>,
     selectedFiles |-> <<>>, showQuestions |-> FALSE, extractedQuestions |-> 0,
     batches |-> {}, pending |-> {}, refreshKey |-> 0, tabTimers |-> 0,
     nDrops |-> 0, nRemoves |-> 0, nCalls |-> 0]

\* The page as it starts, on the upload tab, with toasts and console watched.
InitUpload ==
    /\ TimerIdle
    /\ out = Quiet
    /\ env = [apiUrl |-> DefaultApiUrl, observed |-> TRUE]
    /\ panel = UploadPanel

\* A callback of the upload or schedule tab lets o out; no StudyTimer exists.
Show(o) ==
    /\ out' = IF env.observed THEN o ELSE Quiet
    /\ env' = env
    /\ UNCHANGED timerVars

\* The FileUpload instance is rendered; once the page has left the upload tab
\* its state is gone and its setters do nothing.
UploadLive == panel.tab = "upload"

\* useDropzone's disabled, line 131.
DropzoneDisabled == panel.uploading \/ IsBlank(panel.subject)

\* An upload button that stays enabled during a batch.
ButtonEnabledAlways == Len(panel.selectedFiles) > 0 /\ ~IsBlank(panel.subject)

\* The upload button is rendered (line 217) and not disabled (line 258).
ButtonEnabled ==
    /\ Len(panel.selectedFiles) > 0
    /\ ~(panel.uploading \/ IsBlank(panel.subject))

\* The subject input, lines 141-148.
SetSubject(s) ==
    /\ UploadLive /\ ~panel.uploading
    /\ s # panel.subject
    /\ panel' = [panel EXCEPT !.subject = s]
    /\ Show(Quiet)

\* The highest number among the files of a list, 0 for none.
Highest(files) ==
    IF files = <<>> THEN 0
    ELSE CHOOSE f \in {files[j] : j \in 1..Len(files)} :
            \A j \in 1..Len(files) : files[j] <= f

\* How many files a drop may bring: none, few, and enough to reach or pass the
\* limit in one drop or in two.
DropSizes == {0, 1, MaxFiles - 1, MaxDropSize}

\* The drop zone hands n accepted files to onDrop.
Drop(n) ==
    /\ UploadLive /\ ~DropzoneDisabled
    /\ panel.nDrops < MaxDrops
    /\ LET acceptedFiles == [k \in 1..n |-> Highest(panel.selectedFiles) + k] IN
       panel' = [panel EXCEPT
                   !.selectedFiles = OnDrop(panel.selectedFiles, acceptedFiles),
                   !.nDrops = panel.nDrops + 1]
    /\ Show(Quiet)

\* The Remove button of one row, lines 245-250.
RemoveFile(index) ==
    /\ UploadLive
    /\ index \in 1..Len(panel.selectedFiles)
    /\ panel.nRemoves < MaxRemoves
    /\ panel' = [panel EXCEPT
                   !.selectedFiles = RemoveAt(panel.selectedFiles, index),
                   !.nRemoves = panel.nRemoves + 1]
    /\ Show(Quiet)

\* The Clear All button, lines 223-228.
ClearAll ==
    /\ UploadLive
    /\ Len(panel.selectedFiles) > 0
    /\ panel' = [panel EXCEPT !.selectedFiles = <<>>]
    /\ Show(Quiet)

\* A handleUpload without its two checks.
UploadGuardNone(files, subject) == NoNote

\* The two checks of handleUpload, lines 48-56: the error shown, if any.
UploadGuard(files, subject) ==
    IF Len(files) = 0 THEN "Please select at least one file"
    ELSE IF IsBlank(subject) THEN "Please enter subject name"
    ELSE NoNote

\* The requests of a batch b: uploadPaper(file, year, subject) for the file at
\* index k, and getQuestions(subject, 100).
UploadRequest(b, k) ==
    [kind |-> "upload", batch |-> b.id, index |-> k, file |-> b.files[k],
     subject |-> b.subject]

QuestionsRequest(b) ==
    [kind |-> "questions", batch |-> b.id, index |-> 0, file |-> 0,
     subject |-> b.subject]

\* A loop that starts every upload at once.
IterationAtOnce(b, k) ==
    IF k > Len(b.files) THEN {QuestionsRequest(b)}
    ELSE IF k = 1 THEN {UploadRequest(b, j) : j \in 1..Len(b.files)}
    ELSE {}

\* The loop of lines 67-76 arrives at index k and awaits the upload of that
\* file; past the last file, lines 78-85 await the questions of the subject.
Iteration(b, k) ==
    IF k <= Len(b.files) THEN {UploadRequest(b, k)} ELSE {QuestionsRequest(b)}

\* An allTopics that is an array.
AddTopicPush(topics, topic) == Append(topics, topic)

\* Set.add, line 75: a Set keeps its elements in insertion order.
AddTopic(topics, topic) ==
    IF \E j \in 1..Len(topics) : topics[j] = topic
    THEN topics
    ELSE Append(topics, topic)

\* data.topics_identified.forEach(topic => allTopics.add(topic))
RECURSIVE AddAll(_, _)
AddAll(topics, more) ==
    IF more = <<>> THEN topics
    ELSE AddAll(AddTopic(topics, Head(more)), Tail(more))

BatchOf(r) == CHOOSE b \in panel.batches : b.id = r.batch

\* The toast the loop leaves at index k of n files: toast.loading (line 69)
\* or, past the last file, toast.success (line 78).
LoopToast(k, n) == IF k <= n THEN "Processing" ELSE "Successfully processed"

\* handleUpload, lines 47-59 and the first iteration of its loop.
HandleUpload ==
    LET msg == UploadGuard(panel.selectedFiles, panel.subject)
        b   == [id |-> panel.nCalls + 1, files |-> panel.selectedFiles,
                subject |-> panel.subject, totalQuestions |-> 0,
                allTopics |-> <<>>]
    IN
    IF msg # NoNote
    THEN /\ panel' = [panel EXCEPT !.nCalls = panel.nCalls + 1]
         /\ Show(Out(msg, NoLog, FALSE))
    ELSE /\ panel' = [panel EXCEPT
                        !.uploading = TRUE,
                        !.batches = panel.batches \cup {b},
                        !.pending = panel.pending \cup Iteration(b, 1),
                        !.nCalls = panel.nCalls + 1]
         /\ Show(Out(LoopToast(1, Len(b.files)), NoLog, FALSE))

\* The user clicks the upload button.
ClickUpload ==
    /\ UploadLive /\ ButtonEnabled
    /\ panel.nCalls < MaxCalls
    /\ HandleUpload

\* handleUpload is called whatever the button shows, while no batch runs.
CallHandleUpload ==
    /\ UploadLive /\ ~panel.uploading
    /\ panel.nCalls < MaxCalls
    /\ HandleUpload

\* The upload r of a batch settles: lines 71-76 and the next iteration, or
\* the catch and finally of lines 111-119.
UploadSettled(r, ok, detail) ==
    /\ r \in panel.pending /\ r.kind = "upload"
    /\ LET b    == BatchOf(r)
           data == Extraction(r.file)
           b2   == [b EXCEPT
                      !.totalQuestions = b.totalQuestions + data.questions_extracted,
                      !.allTopics = AddAll(b.allTopics, data.topics_identified)]
       IN
       IF ok
       THEN /\ panel' = [panel EXCEPT
                           !.batches = (panel.batches \ {b}) \cup {b2},
                           !.pending = (panel.pending \ {r})
                                          \cup Iteration(b2, r.index + 1)]
            /\ Show(Out(LoopToast(r.index + 1, Len(b.files)), NoLog, FALSE))
       ELSE /\ panel' = [panel EXCEPT
                           !.batches = panel.batches \ {b},
                           !.pending = panel.pending \ {r},
                           !.uploading = FALSE]
            /\ Show(Out(IF detail = NoDetail
                        THEN "Failed to upload files. Please try again."
                        ELSE detail,
                        "Upload error:", FALSE))

\* What handleUpload hands to onUploadComplete, lines 102-109.
Completion(b) ==
    [success |-> TRUE, message |-> Len(b.files), paper_id |-> "batch_upload",
     extracted_text_length |-> 0, questions_extracted |-> b.totalQuestions,
     topics_identified |-> b.allTopics]

\* A callback that calls onUploadComplete(call) lets that out as well.
OutCall(log, call) ==
    [toast |-> NoNote, log |-> log, fault |-> FALSE, call |-> call]

\* The questions request r of a batch settles with n questions or fails: lines
\* 86-119, and Home.handleUploadComplete (part_002 lines 181-185), which bumps
\* refreshKey and starts the timer that leaves the upload tab.
QuestionsSettled(r, ok, n) ==
    /\ r \in panel.pending /\ r.kind = "questions"
    /\ LET b == BatchOf(r)
           q == [panel EXCEPT
                   !.batches = panel.batches \ {b},
                   !.pending = panel.pending \ {r},
                   !.refreshKey = panel.refreshKey + 1,
                   !.tabTimers = panel.tabTimers + 1]
       IN
       panel' = IF UploadLive
                THEN [q EXCEPT
                        !.extractedQuestions = IF ok THEN n ELSE @,
                        !.showQuestions = IF ok THEN TRUE ELSE @,
                        !.selectedFiles = <<>>,
                        !.uploading = FALSE]
                ELSE q
    /\ Show(OutCall(IF ok THEN NoLog ELSE "Failed to fetch questions:",
                    Completion(BatchOf(r))))

\* The close button of the questions card, lines 277-282.
CloseQuestions ==
    /\ UploadLive
    /\ panel.showQuestions /\ panel.extractedQuestions > 0
    /\ panel' = [panel EXCEPT !.showQuestions = FALSE]
    /\ Show(Quiet)

\* The Done button of the questions card, lines 318-326.
Done ==
    /\ UploadLive
    /\ panel.showQuestions /\ panel.extractedQuestions > 0
    /\ panel' = [panel EXCEPT !.showQuestions = FALSE,
                              !.extractedQuestions = 0,
                              !.subject = <<>>]
    /\ Show(Quiet)

\* A timer of handleUploadComplete fires (part_002 line 184): the page shows
\* the dashboard, and the state of the FileUpload it no longer renders is gone.
TabTimerFire ==
    /\ panel.tab \in {"upload", "dashboard"}
    /\ panel.tabTimers > 0
    /\ panel' = [panel EXCEPT
                   !.tab = "dashboard",
                   !.tabTimers = panel.tabTimers - 1,
                   !.uploading = FALSE,
                   !.subject = <<>>,
                   !.selectedFiles = <<>>,
                   !.showQuestions = FALSE,
                   !.extractedQuestions = 0]
    /\ Show(Quiet)

\* Everything the user and the server can do on the upload tab.
Selecting ==
    \/ \E s \in Subjects : SetSubject(s)
    \/ \E n \in DropSizes : Drop(n)
    \/ \E index \in 1..MaxFiles : RemoveFile(index)
    \/ ClearAll

Settling ==
    \/ \E r \in panel.pending, ok \in BOOLEAN :
         \E detail \in (IF ok THEN {NoDetail} ELSE Details) :
            UploadSettled(r, ok, detail)
    \/ \E r \in panel.pending, ok \in BOOLEAN :
         \E n \in (IF ok THEN 0..1 ELSE {0}) : QuestionsSettled(r, ok, n)
    \/ CloseQuestions
    \/ Done
    \/ TabTimerFire

NextUpload == Selecting \/ ClickUpload \/ Settling

SpecUpload == InitUpload /\ [][NextUpload]_vars

\* The same tab with handleUpload called directly.
NextUploadCalls == Selecting \/ CallHandleUpload \/ Settling

SpecUploadCalls == InitUpload /\ [][NextUploadCalls]_vars

\* ------------------------------------------------ the schedule tab ----
\* ScheduleGenerator (part_000). A JavaScript number is either NaN or a value;
\* the hours the model uses are whole.
MaxGen == 2

Num(n) == [nan |-> FALSE, v |-> n]
NaN    == [nan |-> TRUE, v |-> 0]

DigitChars == <<"0", "1", "2", "3", "4", "5", "6", "7", "8", "9">>

IsDigit(c) == \E d \in 1..10 : DigitChars[d] = c

DigitValue(c) == (CHOOSE d \in 1..10 : DigitChars[d] = c) - 1

\* The digits at the start of a text, read as a number; NaN without a digit.
RECURSIVE ParseDigits(_, _, _)
ParseDigits(text, acc, any) ==
    IF text # <<>> /\ IsDigit(Head(text))
    THEN ParseDigits(Tail(text), acc * 10 + DigitValue(Head(text)), TRUE)
    ELSE IF any THEN Num(acc) ELSE NaN

\* parseFloat(e.target.value), line 155, on texts without a fraction.
ParseFloat(text) ==
    IF text # <<>> /\ Head(text) = "-"
    THEN LET x == ParseDigits(Tail(text), 0, FALSE) IN
         IF x.nan THEN NaN ELSE Num(0 - x.v)
    ELSE ParseDigits(text, 0, FALSE)

\* What a number input can hold: emptied, zero, a negative, and valid hours.
HoursTexts == { <<>>, <<"0">>, <<"-", "5">>, <<"1">>, <<"4", "0">> }

\* availableHours <= 0, line 31: every comparison with NaN is false.
LeqZero(x) == ~x.nan /\ x.v <= 0

\* StudySchedule values the server may answer with (types lines 42-49).
Schedules == { [total_hours |-> 1, total_sessions |-> 2],
               [total_hours |-> 40, total_sessions |-> 80] }

\* ScheduleGenerator as first rendered, lines 24-28, with its requests in
\* flight and the number of clicks on the generate button.
SchedulePanel ==
    [tab |-> "schedule", availableHours |-> Num(40), studyDuration |-> 25,
     breakDuration |-> 5, schedule |-> Null, generating |-> FALSE,
     pending |-> {}, nGen |-> 0]

\* The page on the schedule tab, with toasts and console watched.
InitSchedule ==
    /\ TimerIdle
    /\ out = Quiet
    /\ env = [apiUrl |-> DefaultApiUrl, observed |-> TRUE]
    /\ panel = SchedulePanel

\* The hours input, lines 152-159.
SetAvailableHours(text) ==
    /\ panel.tab = "schedule"
    /\ panel' = [panel EXCEPT !.availableHours = ParseFloat(text)]
    /\ Show(Quiet)

\* A click on the generate button (lines 194-200, disabled while generating)
\* runs handleGenerate, lines 30-43, up to its await.
HandleGenerate ==
    /\ panel.tab = "schedule"
    /\ ~panel.generating
    /\ panel.nGen < MaxGen
    /\ IF LeqZero(panel.availableHours)
       THEN /\ panel' = [panel EXCEPT !.nGen = panel.nGen + 1]
            /\ Show(Out("Please enter valid available hours", NoLog, FALSE))
       ELSE /\ panel' =
                 [panel EXCEPT
                    !.generating = TRUE,
                    !.nGen = panel.nGen + 1,
                    !.pending = panel.pending \cup
                       {[id |-> panel.nGen + 1,
                         available_hours |-> panel.availableHours,
                         study_duration |-> panel.studyDuration,
                         break_duration |-> panel.breakDuration]}]
            /\ Show(Out("Generating personalized schedule...", NoLog, FALSE))

\* The request r settles: lines 45-54.
GenerateSettled(r, ok, data, detail) ==
    /\ panel.tab = "schedule"
    /\ r \in panel.pending
    /\ panel' = [panel EXCEPT
                   !.pending = panel.pending \ {r},
                   !.schedule = IF ok THEN data ELSE @,
                   !.generating = FALSE]
    /\ Show(IF ok
            THEN Out("Schedule generated successfully!", NoLog, FALSE)
            ELSE Out(IF detail = NoDetail THEN "Failed to generate schedule"
                     ELSE detail,
                     "Schedule generation error:", FALSE))

NextSchedule ==
    \/ \E text \in HoursTexts : SetAvailableHours(text)
    \/ HandleGenerate
    \/ \E r \in panel.pending, data \in Schedules : GenerateSettled(r, TRUE, data, NoDetail)
    \/ \E r \in panel.pending, detail \in Details : GenerateSettled(r, FALSE, Null, detail)

SpecSchedule == InitSchedule /\ [][NextSchedule]_vars

\* ------------------------------------------------------------- claims ----
LiveSockets == {s \in SockIds : sockets[s].rs \in {"CONNECTING", "OPEN"}}

HandleClosed(i) == wsRef[i] # 0 /\ sockets[wsRef[i]].rs = "CLOSED"

CommandReqs == {r \in reqs : r.kind \in Commands}

\* C1: whenever the message handler of the mounted instance processes a push
\* that parses, the cached TimerState afterwards is the state that push
\* carried, whatever was cached before and whatever earlier pushes carried
\* (pushes apply in receipt order, the last one wins, no field is merged).
C1_LastPushWins ==
    [][nPush' # nPush =>
         \A s \in SockIds, f \in PushFrames :
           (OnMessage(s, f) /\ f.kind = "json" /\ IsLive(sockets[s].inst))
             => timerState'[sockets[s].inst] = f.state]_vars

\* Two pushes have been processed while createTimer of every effect run was
\* still in flight, so no state fetch was ever issued: the cache holds a state
\* that a push carried.
C1_Witness ==
    /\ mounted /\ nPush = 2
    /\ timerState[inst] \in TimerStates
    /\ \A g \in 1..nEffects : \E r \in reqs : r.kind = "create" /\ r.gen = g

\* C2: no socket is ever opened by a reconnect timer whose effect has been
\* cleaned up (unmount or key change) by the time it fires.
C2_NoLeakedReconnect == \A s \in SockIds : ~sockets[s].stale

\* C3: when a socket reaches CLOSED, the status is Disconnected and exactly one
\* reconnect timer is added, unless the effect that opened the socket has been
\* cleaned up, in which case no timer is added.
C3_CloseSchedulesUnlessTornDown ==
    [][\A s \in SockIds :
         (sockets[s].rs # "CLOSED" /\ sockets'[s].rs = "CLOSED")
           => IF sockets[s].gen = activeGen
              THEN /\ ~isConnected'[sockets[s].inst]
                   /\ Len(timers') = Len(timers) + 1
              ELSE timers' = timers]_vars

\* C4: a reconnect timer that fires while the socket in the handle is
\* connecting, open or closing creates no socket and leaves the handle alone.
C4_ReconnectNoOp ==
    [][(/\ timers # <<>>
        /\ timers' = Tail(timers)
        /\ wsRef[Head(timers).inst] # 0
        /\ sockets[wsRef[Head(timers).inst]].rs \in {"CONNECTING", "OPEN", "CLOSING"})
         => (sockets' = sockets /\ wsRef' = wsRef)]_vars

\* The timer of a closed socket has fired and was skipped: no timer is left, no
\* socket was opened by a reconnect, and the handle holds a live socket.
C4_Witness ==
    /\ mounted /\ timers = <<>>
    /\ \E s \in SockIds : sockets[s].rs = "CLOSED"
    /\ \A s \in SockIds : sockets[s].via = "effect"
    /\ wsRef[inst] \in LiveSockets

\* C5: never are two sockets for the same identity key connecting or open at
\* the same time.
C5_SingleConnection ==
    \A s, r \in LiveSockets : sockets[s].user = sockets[r].user => s = r

\* C6: a command changes the cached TimerState neither when it is issued nor
\* when its request resolves or rejects, and the cached TimerState of an
\* instance that stays mounted changes only in the message handler or when a
\* state-fetch response arrives.
C6_CommandsLeaveState ==
    [][/\ (nCmds' # nCmds \/ CommandReqs' # CommandReqs) => timerState' = timerState
       /\ \A i \in Insts :
            (IsLive(i) /\ mounted' /\ inst' = i /\ timerState'[i] # timerState[i])
              => \/ nPush' = nPush + 1
                 \/ \E r \in ReqsOf("state") : r \notin reqs']_vars

\* A command was clicked and its request has settled; the cache of the mounted
\* instance still shows a stopped timer.
C6_Witness ==
    /\ mounted /\ nCmds = 1 /\ CommandReqs = {}
    /\ IsTruthy(timerState[inst])
    /\ ~timerState[inst].is_running

\* C7: every socket the effect opens is opened after createTimer has completed
\* and the two fetches have been issued.
C7_ConnectAfterInit ==
    \A s \in SockIds : sockets[s].via = "effect" => sockets[s].afterCreate

\* C8: the state fetch and then the stats fetch of an effect run are issued
\* together, in the step in which its createTimer resolves; nothing is issued
\* when createTimer is rejected; and createTimer of a run is never in flight
\* together with one of the run's two fetches.
C8_InitOrder ==
    [][reqs' # reqs =>
         /\ \A r \in reqs' \ reqs :
              (r.click = 0 /\ r.kind \in {"state", "stats"})
                => /\ \E c \in reqs \ reqs' : c.kind = "create" /\ c.gen = r.gen
                   /\ {FetchState(r, 1), FetchStats(r, 2)} \subseteq reqs' \ reqs
                   /\ r.ord = IF r.kind = "state" THEN 1 ELSE 2
         /\ \A c \in reqs \ reqs' :
              (c.kind = "create" /\ CreateSettled(c, FALSE)) => reqs' \subseteq reqs
         /\ \A r, c \in reqs' :
              (r.click = 0 /\ r.kind \in {"state", "stats"} /\ c.kind = "create")
                => c.gen # r.gen]_vars

\* Both fetches of an effect run are in flight, its createTimer is not.
C8_Witness ==
    \E r1, r2 \in reqs :
        /\ r1.kind = "state" /\ r2.kind = "stats"
        /\ r1.gen = r2.gen /\ r1.click = 0 /\ r2.click = 0
        /\ r1.ord = 1 /\ r2.ord = 2

\* C9: while an instance stays mounted, a closed socket in its handle is
\* eventually replaced by a new connection attempt, after every failure; and
\* when a socket of the mounted instance opens, the status becomes Connected.
C9_ReconnectsForever ==
    /\ \A i \in Insts :
         (IsLive(i) /\ HandleClosed(i)) ~> (~IsLive(i) \/ ~HandleClosed(i))
    /\ [][\A s \in SockIds :
            (/\ sockets[s].rs = "CONNECTING" /\ sockets'[s].rs = "OPEN"
             /\ IsLive(sockets[s].inst))
              => isConnected'[sockets[s].inst]]_vars

\* After two failures the handle holds an open socket that a reconnect opened,
\* and the status is Connected.
C9_Witness ==
    /\ mounted /\ nFail = 2
    /\ wsRef[inst] # 0
    /\ sockets[wsRef[inst]].via = "reconnect"
    /\ sockets[wsRef[inst]].rs = "OPEN"
    /\ isConnected[inst]

C11_LateResponsesDiscarded ==
    [][\A r \in reqs :
         (r.kind \in {"state", "stats"} /\ r.gen # activeGen /\ r \notin reqs')
           => (timerState' = timerState /\ stats' = stats)]_vars

\* C12: no callback ends in an uncaught exception, and the component holds
\* nothing but a TimerState or null and a TimerStats or null.
C12_NoUncaughtFault ==
    /\ ~out.fault
    /\ \A i \in Insts :
         /\ timerState[i] \in TimerStates \cup {Null}
         /\ stats[i] \in TimerStatsValues \cup {Null}

\* C13: when a command request is rejected, the handler shows its one error
\* toast, leaves the cached TimerState, the cached TimerStats and the status
\* alone, and issues no request.
C13_RejectedCommand ==
    [][\A r \in CommandReqs :
         CommandSettled(r, FALSE)
           => /\ out'.toast = CASE r.kind = "start" -> "Failed to start timer"
                                 [] r.kind = "pause" -> "Failed to pause timer"
                                 [] r.kind = "reset" -> "Failed to reset timer"
              /\ ~out'.fault
              /\ timerState' = timerState
              /\ stats' = stats
              /\ isConnected' = isConnected
              /\ reqs' = reqs \ {r}]_vars

\* The reset request of the mounted instance was rejected: its error toast is
\* up and nothing is in flight on behalf of a click.
C13_Witness ==
    /\ mounted /\ nCmds = 1
    /\ out.toast = "Failed to reset timer"
    /\ \A r \in reqs : r.click = 0
    /\ IsTruthy(timerState[inst])

\* The initialization of the mounted instance is over and has left the cache
\* null: createTimer or the baseline state fetch was rejected.
InitFailed ==
    /\ mounted
    /\ timerState[inst] = Null
    /\ ~\E r \in reqs : r.gen = activeGen /\ r.click = 0
                         /\ r.kind \in {"create", "state"}

\* C14: a rejected createTimer and a rejected baseline state fetch are caught
\* and logged, leave the cached TimerState as it was and issue no request;
\* createTimer is requested only by an effect run and the baseline state fetch
\* only when createTimer resolves; and once the initialization has failed the
\* cached TimerState leaves null only when a push is handled.
C14_InitFailure ==
    [][/\ \A c \in ReqsOf("create") :
            CreateSettled(c, FALSE)
              => /\ out'.log = "Timer initialization error:"
                 /\ ~out'.fault
                 /\ timerState' = timerState
                 /\ reqs' = reqs \ {c}
       /\ \A r \in ReqsOf("state") :
            StateSettled(r, FALSE, NoVal)
              => /\ out'.log = "Error fetching timer state:"
                 /\ ~out'.fault
                 /\ timerState' = timerState
                 /\ reqs' = reqs \ {r}
       /\ \A r \in reqs' \ reqs :
            /\ r.kind = "create" => nEffects' = nEffects + 1
            /\ (r.kind = "state" /\ r.click = 0)
                 => \E c \in reqs \ reqs' : c.kind = "create" /\ c.gen = r.gen
       /\ InitFailed
            => /\ \A r \in reqs' \ reqs : r.kind \notin {"create", "state"}
               /\ timerState'[inst] # Null => nPush' = nPush + 1]_vars

\* The baseline state fetch of the mounted instance was rejected and logged;
\* the cache is still null.
C14_Witness ==
    /\ InitFailed
    /\ out.log = "Error fetching timer state:"

\* C15 as stated: a push shows a toast exactly when its notification field is
\* there, with that text, and the cached TimerState becomes the state it
\* carries.
C15_NotifyIffPresent ==
    [][nPush' # nPush =>
         \A s \in SockIds, f \in PushFrames :
           (OnMessage(s, f) /\ f.kind = "json")
             => /\ out'.toast = f.notification
                /\ IsLive(sockets[s].inst)
                     => timerState'[sockets[s].inst] = f.state]_vars

\* C15, amended: a push shows a toast exactly when its notification field is a
\* non-empty string, with that text; a push whose notification is absent, null
\* or empty shows none. In both cases the cached TimerState becomes the state
\* the push carries.
C15_NotifyIffNonEmpty ==
    [][nPush' # nPush =>
         \A s \in SockIds, f \in PushFrames :
           (OnMessage(s, f) /\ f.kind = "json")
             => /\ out'.toast = IF f.notification = "" THEN NoNote
                                                       ELSE f.notification
                /\ IsLive(sockets[s].inst)
                     => timerState'[sockets[s].inst] = f.state]_vars

\* The push with the notification "Break time!" was handled: the toast shows
\* that text and the cache holds the running state the push carried.
C15_Witness ==
    /\ mounted
    /\ out.toast = "Break time!"
    /\ IsTruthy(timerState[inst])
    /\ timerState[inst].is_running

\* C16: a command handler issues a request after its own only when reset
\* resolved, and then the one stats fetch; a click issues nothing but the
\* command's request.
C16_StatsAfterReset ==
    [][/\ \A r \in CommandReqs, ok \in BOOLEAN :
            CommandSettled(r, ok)
              => reqs' \ reqs = IF ok /\ r.kind = "reset"
                                THEN {Request("stats", r.inst, r.user, r.gen, r.click, 1)}
                                ELSE {}
       /\ nCmds' # nCmds => \A r \in reqs' \ reqs : r.kind \in Commands]_vars

\* The stats fetch that follows a successful reset is in flight.
C16_Witness ==
    /\ mounted /\ nCmds = 1
    /\ out.toast = "Timer reset"
    /\ \E r \in ReqsOf("stats") : r.click = 1

\* The step tears down the effect in force: an unmount or a key change.
Teardown == activeGen # 0 /\ activeGen' # activeGen

\* C17: when a socket of the mounted instance opens, the status of that
\* instance is Connected afterwards; and the status of an instance turns from
\* Disconnected to Connected only in a step in which one of its sockets opens.
C17_ConnectedOnlyByOpen ==
    [][/\ \A s \in SockIds :
            (SocketOpen(s) /\ IsLive(sockets[s].inst))
              => isConnected'[sockets[s].inst]
       /\ \A i \in Insts :
            (~isConnected[i] /\ isConnected'[i])
              => \E s \in SockIds :
                   /\ sockets[s].inst = i
                   /\ sockets[s].rs = "CONNECTING"
                   /\ sockets'[s].rs = "OPEN"]_vars

\* The first socket of the mounted instance is open, nothing has failed, and
\* the status is Connected.
C17_Witness ==
    /\ mounted /\ nFail = 0
    /\ wsRef[inst] # 0
    /\ sockets[wsRef[inst]].rs = "OPEN"
    /\ sockets[wsRef[inst]].via = "effect"
    /\ isConnected[inst]

\* C18: a teardown leaves no socket of the instance connecting or open, the
\* one in the handle included; and when the close event of a socket whose
\* effect was torn down has been delivered, no socket of that effect is
\* connecting or open.
C18_TeardownCloses ==
    [][/\ Teardown
            => \A s \in SockIds :
                 sockets[s].inst = inst => sockets'[s].rs \in {"CLOSING", "CLOSED"}
       /\ \A s \in SockIds :
            (/\ sockets[s].rs = "CLOSING" /\ sockets'[s].rs = "CLOSED"
             /\ sockets[s].gen # activeGen)
              => \A r \in 1..Len(sockets') :
                   sockets'[r].gen = sockets[s].gen
                     => sockets'[r].rs \in {"CLOSING", "CLOSED"}]_vars

\* The instance was unmounted while its socket was open, and the close event
\* has been delivered: the socket in the handle is closed and no socket is
\* connecting or open.
C18_Witness ==
    /\ ~mounted /\ inst = 1 /\ nFail = 0
    /\ sockets[wsRef[inst]].rs = "CLOSED"
    /\ LiveSockets = {}
    /\ timers # <<>>

\* C19: a close that comes with an error event leaves the status of the
\* mounted instance Disconnected, adds the one timer of the close handler and
\* no other, creates and closes no socket besides the one that failed, leaves
\* the handle alone and leaves the cached TimerState as it was.
C19_ErrorOnlySetsStatus ==
    [][\A s \in SockIds :
         (CloseEvent(s, TRUE) \/ ConnectionLost(s, TRUE))
           => /\ IsLive(sockets[s].inst) => ~isConnected'[sockets[s].inst]
              /\ Len(timers') = Len(timers) + 1
              /\ sockets' = [sockets EXCEPT ![s].rs = "CLOSED"]
              /\ wsRef' = wsRef
              /\ timerState' = timerState]_vars

\* An open socket of the mounted instance has failed with an error event: the
\* error was logged, the status is Disconnected and one timer is pending.
C19_Witness ==
    /\ mounted /\ nFail = 1
    /\ out.log = "WebSocket error:"
    /\ ~isConnected[inst]
    /\ Len(timers) = 1
    /\ sockets[wsRef[inst]].rs = "CLOSED"

\* The address the claim describes: ws:// for http://, wss:// for https://,
\* the rest of the base address as it is, then the path and the user id.
SchemeSubstituted(api) ==
    IF SubSeq(api, 1, 5) = <<"h", "t", "t", "p", "s">>
    THEN <<"w", "s", "s">> \o SubSeq(api, 6, Len(api))
    ELSE <<"w", "s">> \o SubSeq(api, 5, Len(api))

\* C20: every socket is created with the address that is the base address
\* with its scheme substituted, followed by /api/timer/ws/<user_id>.
C20_SocketAddress ==
    \A s \in SockIds :
        sockets[s].url
          = SchemeSubstituted(env.apiUrl) \o <<"/api/timer/ws/">> \o <<sockets[s].user>>

\* Sockets exist for both users under a base address whose host contains
\* "http".
C20_Witness ==
    /\ IndexOf(SubSeq(env.apiUrl, 5, Len(env.apiUrl)), <<"h", "t", "t", "p">>) # 0
    /\ \E s, r \in SockIds : sockets[s].user # sockets[r].user

\* C21: while an instance is mounted, its status is Connected exactly when the
\* socket in its handle is open.
C21_StatusMatchesHandle ==
    mounted =>
      (isConnected[inst] <=> (wsRef[inst] # 0 /\ sockets[wsRef[inst]].rs = "OPEN"))

\* C22: whenever a socket is created for a mounted instance, by the effect or
\* by a reconnect timer, it is addressed by the userId the instance has then.
C22_ReconnectUsesCurrentKey ==
    [][(Len(sockets') = Len(sockets) + 1 /\ mounted'
          /\ sockets'[Len(sockets')].inst = inst')
         => sockets'[Len(sockets')].user = userId']_vars

\* C23: the progress percentage of every cached state of the timer's
\* countdown lies between 0 and 100.
C23_ProgressInRange ==
    \A i \in Insts :
        timerState[i] \in ServerStates
          => (ProgressPercentage(timerState[i]) >= 0
              /\ ProgressPercentage(timerState[i]) <= 100)

\* C24: the selection never holds more than 10 files; a drop keeps the files
\* already selected, in order, and appends the first of the dropped files
\* until 10 are reached; removing index i removes that file and keeps the
\* order of the others.
C24_SelectionBounded ==
    [][LET prev == panel.selectedFiles
           new  == panel'.selectedFiles
       IN  /\ Len(new) <= MaxFiles
           /\ \A n \in DropSizes :
                Drop(n) =>
                  LET kept == Min(n, MaxFiles - Len(prev)) IN
                  new = prev \o [k \in 1..kept |-> Highest(prev) + k]
           /\ \A i \in 1..MaxFiles :
                RemoveFile(i) =>
                  /\ Len(new) = Len(prev) - 1
                  /\ \A j \in 1..Len(new) :
                        new[j] = IF j < i THEN prev[j] ELSE prev[j + 1]]_vars

\* The list is full after a removal of its first file and a drop that brought
\* more files than there was room for.
C24_Witness ==
    /\ panel.tab = "upload"
    /\ Len(panel.selectedFiles) = MaxFiles
    /\ panel.nDrops = 2 /\ panel.nRemoves = 1
    /\ panel.selectedFiles[1] = 2

UploadErrors == {"Please select at least one file", "Please enter subject name"}

\* C25: a call of handleUpload with an empty selection or a blank subject
\* sends nothing, shows an error and leaves the flag false and the selection
\* as it was; every upload request in flight belongs to a batch of at least
\* one file and carries a subject that is not blank.
C25_GuardedUpload ==
    [][/\ (panel'.nCalls # panel.nCalls
             /\ (Len(panel.selectedFiles) = 0 \/ IsBlank(panel.subject)))
          => /\ panel'.pending = panel.pending
             /\ panel'.batches = panel.batches
             /\ out'.toast \in UploadErrors
             /\ panel'.uploading = FALSE
             /\ panel'.selectedFiles = panel.selectedFiles
       /\ \A r \in panel'.pending :
             r.kind = "upload"
               => /\ ~IsBlank(r.subject)
                  /\ \E b \in panel'.batches : b.id = r.batch /\ Len(b.files) > 0]_vars

\* handleUpload was called with files selected and the subject blanked.
C25_Witness ==
    /\ panel.tab = "upload"
    /\ panel.nCalls > 0
    /\ out.toast = "Please enter subject name"
    /\ Len(panel.selectedFiles) > 0
    /\ panel.pending = {}

\* C26: while FileUpload is rendered, uploading is true exactly while a batch
\* runs, every request in flight is under the flag, at most one batch runs,
\* and while the flag is true no batch is started and no drop is taken.
C26_UploadingFlag ==
    [][/\ panel'.tab = "upload"
          => /\ panel'.uploading <=> panel'.batches # {}
             /\ panel'.pending # {} => panel'.uploading
       /\ Cardinality(panel'.batches) <= 1
       /\ (panel.tab = "upload" /\ panel.uploading)
          => /\ panel'.nCalls = panel.nCalls
             /\ panel'.nDrops = panel.nDrops]_vars

\* A batch runs while files are selected and the subject is filled in.
C26_Witness ==
    /\ panel.tab = "upload"
    /\ panel.uploading
    /\ panel.nCalls = 1
    /\ Len(panel.selectedFiles) > 0
    /\ ~IsBlank(panel.subject)
    /\ \E r \in panel.pending : r.kind = "upload" /\ r.index = 2

\* C27: a batch has one request in flight at a time; a new upload request is
\* for the first file of a new batch or for the file after the one whose
\* upload just resolved; when an upload is rejected the batch sends nothing
\* more, the selection stays, onUploadComplete is not called and an error
\* toast is shown.
C27_SequentialUploads ==
    [][/\ \A b \in panel'.batches :
             Cardinality({r \in panel'.pending : r.batch = b.id}) <= 1
       /\ \A r \in panel'.pending \ panel.pending :
             r.kind = "upload"
               => /\ \E b \in panel'.batches :
                        b.id = r.batch /\ r.file = b.files[r.index]
                  /\ \/ r.index = 1 /\ ~\E b \in panel.batches : b.id = r.batch
                     \/ \E d \in panel.pending \ panel'.pending :
                           d.batch = r.batch /\ d.index + 1 = r.index
       /\ \A d \in panel.pending \ panel'.pending :
             (d.kind = "upload" /\ ~\E b \in panel'.batches : b.id = d.batch)
               => /\ ~\E r \in panel'.pending : r.batch = d.batch
                  /\ panel'.selectedFiles = panel.selectedFiles
                  /\ panel'.refreshKey = panel.refreshKey
                  /\ "call" \notin DOMAIN out'
                  /\ out'.toast \in Details \cup
                        {"Failed to upload files. Please try again."}
                  /\ out'.toast # NoDetail]_vars

\* An upload was rejected with files still selected.
C27_Witness ==
    /\ panel.tab = "upload"
    /\ out.log = "Upload error:"
    /\ out.toast = "File too large"
    /\ Len(panel.selectedFiles) > 1
    /\ panel.batches = {}

RECURSIVE SumQuestions(_)
SumQuestions(files) ==
    IF files = <<>> THEN 0
    ELSE Extraction(Head(files)).questions_extracted + SumQuestions(Tail(files))

TopicsOf(files) ==
    UNION {{Extraction(files[j]).topics_identified[m] :
              m \in 1..Len(Extraction(files[j]).topics_identified)} :
           j \in 1..Len(files)}

\* C28: when the last step of a batch whose files were all uploaded runs,
\* with the questions fetched or not, the selection is cleared and
\* onUploadComplete is called once, with the sum of the files' question
\* counts and the topics of the files, each once; it is called at no other
\* moment.
C28_CompletionTotals ==
    [][IF \E d \in panel.pending \ panel'.pending : d.kind = "questions"
       THEN \A d \in panel.pending \ panel'.pending :
              LET b == BatchOf(d) IN
              /\ "call" \in DOMAIN out'
              /\ out'.call.questions_extracted = SumQuestions(b.files)
              /\ Len(out'.call.topics_identified) = Cardinality(TopicsOf(b.files))
              /\ {out'.call.topics_identified[m] :
                    m \in 1..Len(out'.call.topics_identified)} = TopicsOf(b.files)
              /\ panel'.refreshKey = panel.refreshKey + 1
              /\ panel.tab = "upload" => panel'.selectedFiles = <<>>
       ELSE /\ "call" \notin DOMAIN out'
            /\ panel'.refreshKey = panel.refreshKey]_vars

\* A batch of several files was completed although its questions could not be
\* fetched.
C28_Witness ==
    /\ "call" \in DOMAIN out
    /\ out.log = "Failed to fetch questions:"
    /\ out.call.message > 2
    /\ out.call.questions_extracted > 3
    /\ Len(out.call.topics_identified) = 2
    /\ panel.selectedFiles = <<>>

\* C29: a click on generate with hours that are not a positive number sends
\* nothing and shows an error, so every request in flight carries positive
\* hours; when a request settles the generating flag is false, and a request
\* that fails leaves the schedule as it was.
C29_PositiveHoursOnly ==
    [][/\ (panel'.nGen # panel.nGen
             /\ (panel.availableHours.nan \/ panel.availableHours.v <= 0))
          => /\ panel'.pending = panel.pending
             /\ out'.toast = "Please enter valid available hours"
       /\ \A r \in panel'.pending :
             ~r.available_hours.nan /\ r.available_hours.v > 0
       /\ panel'.pending # panel.pending /\ panel'.nGen = panel.nGen
          => /\ ~panel'.generating
             /\ out'.log = "Schedule generation error:"
                  => panel'.schedule = panel.schedule]_vars

====
